---- MODULE Spec2Model ----
(***************************************************************************)
(* A model of src/app.py: the table extraction of WebScraper, its          *)
(* year/button iteration, the field normaliser and the per-kind            *)
(* transforms.                                                             *)
(*                                                                         *)
(* Text is a sequence of one-character tokens (<<"t","i","n","t","o">>);   *)
(* an accented letter is a token of its own ("e_acute").  A cell value of  *)
(* a data frame is tagged: [s |-> text], [i |-> integer] or [nan |-> TRUE].*)
(* A data frame is [columns |-> names, rows |-> positional value rows].    *)
(***************************************************************************)
EXTENDS Integers, Sequences, FiniteSets, TLC

VARIABLES
    pc,                      \* position of the running operation
    entry,                   \* the method the caller invoked
    cls,                     \* the class of the receiver
    \* extract_table_data (lines 50-87): arguments, locals, result
    table,                   \* the table argument; in a run, what line 100 found
    classification_button,   \* the button label argument
    idx,                     \* number of rows the loop of line 69 has handled
    headers,                 \* lines 58-61
    current_classification,  \* line 63
    second_last_item,        \* line 64
    rows,                    \* line 65
    df,                      \* the returned DataFrame (line 87)
    \* the scraper object and run_scraping (lines 89-119)
    years,                   \* self.years
    buttons,                 \* what the receiver's get_buttons() returns
    yi,                      \* position in self.years (line 93)
    bi,                      \* position in the button list (line 96)
    html,                    \* the page of the fetch in progress (line 98)
    data,                    \* self.data
    dados,                   \* self.dados
    exc,                     \* the exception that left the entry method, or "none"
    log,                     \* history: the fetches issued so far and what each gave
    raw                      \* history: the frame an operation started from

exVars == <<table, classification_button, idx, headers,
            current_classification, second_last_item, rows, df>>

runVars == <<years, buttons, yi, bi, html, data, dados, exc, log, raw>>

vars == <<pc, entry, cls, exVars, runVars>>

----------------------------------------------------------------------------
(* Bounds *)

MaxRows == 3
MaxYears == 2
MaxText == 3
MaxDadosRows == 2
MaxCalls == 2
MaxCallRows == 2

----------------------------------------------------------------------------
(* Values and text *)

Str(t) == [s |-> t]
IntV(n) == [i |-> n]
NaN == [nan |-> TRUE]
IsStr(v) == DOMAIN v = {"s"}
IsInt(v) == DOMAIN v = {"i"}
IsNaN(v) == DOMAIN v = {"nan"}

\* pd.DataFrame(): no columns, no rows
NoFrame == [columns |-> <<>>, rows |-> <<>>]

\* find_data_table's None, and a page not yet fetched
NoTable == [none |-> TRUE]
NoPage == [none |-> TRUE]
\* an attribute no statement has assigned yet
Unset == [unset |-> TRUE]
IsNone(x) == "none" \in DOMAIN x

\* the empty string
EmptyText == <<>>

Whitespace == {" "}

RECURSIVE LStrip(_)
LStrip(t) ==
    IF t # <<>> /\ Head(t) \in Whitespace THEN LStrip(Tail(t)) ELSE t

RECURSIVE RStrip(_)
RStrip(t) ==
    IF t # <<>> /\ t[Len(t)] \in Whitespace
    THEN RStrip(SubSeq(t, 1, Len(t) - 1))
    ELSE t

\* str.strip()
Strip(t) == RStrip(LStrip(t))

\* str.upper() on the letters of the model's alphabet
LowerLetters == <<"a","b","c","d","e","f","g","h","i","j","k","l","m",
                  "n","o","p","q","r","s","t","u","v","w","x","y","z">>
UpperLetters == <<"A","B","C","D","E","F","G","H","I","J","K","L","M",
                  "N","O","P","Q","R","S","T","U","V","W","X","Y","Z">>

UpperChar(c) ==
    IF \E k \in 1..26 : LowerLetters[k] = c
    THEN UpperLetters[CHOOSE k \in 1..26 : LowerLetters[k] = c]
    ELSE c

Upper(t) == [k \in 1..Len(t) |-> UpperChar(t[k])]

\* unidecode() on one character: an accented letter gives its base letter,
\* an ASCII character is left alone
UnidecodeChar(c) ==
    CASE c = "e_acute" -> <<"e">>
      [] c = "a_tilde" -> <<"a">>
      [] c = "c_cedilla" -> <<"c">>
      [] OTHER -> <<c>>

RECURSIVE Unidecode(_)
Unidecode(t) ==
    IF t = <<>> THEN <<>> ELSE UnidecodeChar(Head(t)) \o Unidecode(Tail(t))

----------------------------------------------------------------------------
(* Data frames *)

HasCol(f, c) == \E k \in 1..Len(f.columns) : f.columns[k] = c
ColIndex(f, c) == CHOOSE k \in 1..Len(f.columns) : f.columns[k] = c
Cell(f, r, c) == f.rows[r][ColIndex(f, c)]

\* df[c] = scalar, for a column c the frame does not have yet
WithColumn(f, c, v) ==
    [columns |-> Append(f.columns, c),
     rows |-> [r \in 1..Len(f.rows) |-> Append(f.rows[r], v)]]

\* the rows of f laid out over the columns cols; a missing cell is NaN
Reindex(f, cols) ==
    [r \in 1..Len(f.rows) |->
        [j \in 1..Len(cols) |-> IF HasCol(f, cols[j]) THEN Cell(f, r, cols[j]) ELSE NaN]]

\* line 104 (mutant: the new frame goes first)
Concat_NewFirst(a, b) ==
    LET fresh(c) == ~HasCol(b, c)
        cols == b.columns \o SelectSeq(a.columns, fresh)
    IN  [columns |-> cols, rows |-> Reindex(b, cols) \o Reindex(a, cols)]
\* pd.concat([a, b], ignore_index=True): the union of the columns in order
\* of first appearance, a's rows then b's
Concat(a, b) ==
    LET fresh(c) == ~HasCol(a, c)
        cols == a.columns \o SelectSeq(b.columns, fresh)
    IN  [columns |-> cols, rows |-> Reindex(a, cols) \o Reindex(b, cols)]

----------------------------------------------------------------------------
(* clean_data, src/app.py lines 139-159 *)

Sentinels == {<<"-">>, <<"*">>}

\* lines 143-156 (mutant: the value is compared without being trimmed)
NormalizeText_NoTrim(v) ==
    IF IsStr(v)
    THEN IF v.s \in Sentinels THEN Str(<<"0">>) ELSE Str(Upper(Unidecode(v.s)))
    ELSE v
\* lines 143-156
NormalizeText(v) ==
    IF IsStr(v)
    THEN IF Strip(v.s) \in Sentinels THEN Str(<<"0">>) ELSE Str(Upper(Unidecode(v.s)))
    ELSE v

\* select_dtypes(include='object'): a column holding at least one text
\* value has dtype object; a column of integers only has not
IsObjectColumn(f, j) == \E r \in 1..Len(f.rows) : IsStr(f.rows[r][j])

\* lines 158-159
CleanData(f) ==
    [f EXCEPT !.rows =
        [r \in 1..Len(f.rows) |->
            [j \in 1..Len(f.columns) |->
                IF IsObjectColumn(f, j) THEN NormalizeText(f.rows[r][j]) ELSE f.rows[r][j]]]]

----------------------------------------------------------------------------
(* Tables.  A table is [header |-> the th texts (stripped), rows |-> the   *)
(* tr elements after the first one, in document order].  A row is          *)
(* [cls |-> class list of its first td, cells |-> raw td texts,            *)
(*  mk |-> the rest of its markup, foot |-> it lies inside the first       *)
(*  tfoot.tb_total].                                                       *)

ClassLists == {{}, {"tb_item"}, {"tb_subitem"}}
RawTexts == {<<"a">>, <<" ", "b">>}
OtherMarkup == {0, 1}

RowsOf(n) ==
    [1..n -> [cls : ClassLists, cells : {<<t>> : t \in RawTexts},
              mk : OtherMarkup, foot : BOOLEAN]]

\* the rows of one tfoot element are contiguous in document order
FootContiguous(rs) ==
    \A i, j, k \in 1..Len(rs) :
        (i < j /\ j < k /\ rs[i].foot /\ rs[k].foot) => rs[j].foot

GeneratedTables ==
    { [header |-> <<"Produto">>, rows |-> rs] :
        rs \in { r \in UNION { RowsOf(n) : n \in 0..MaxRows } : FootContiguous(r) } }

----------------------------------------------------------------------------
(* extract_table_data, src/app.py lines 50-87 *)

\* What bs4 compares when two tr elements are tested with ==: name,
\* attributes and contents, recursively; not identity, not position.
RowMarkup(row) == [cls |-> row.cls, cells |-> row.cells, mk |-> row.mk]

\* footer.find_all('tr') of line 73, empty when line 67 finds no footer
FooterRows(t) == { RowMarkup(t.rows[i]) : i \in { j \in 1..Len(t.rows) : t.rows[j].foot } }

\* line 73 (mutant: the markup hint is looked at before the footer)
InFooter_AfterHints(t, row) == RowMarkup(row) \in FooterRows(t) /\ row.cls = {}
\* line 73: "footer and row in footer.find_all('tr')"; list membership is ==
InFooter(t, row) == RowMarkup(row) \in FooterRows(t)

\* line 71
RowData(row) == [k \in 1..Len(row.cells) |-> Str(Strip(row.cells[k]))]

\* lines 58-61
Headers(t, button) ==
    t.header \o <<"Classification">> \o (IF button # <<>> THEN <<"Button">> ELSE <<>>)

\* lines 84-85
WithButton(row_data, button) ==
    IF button # <<>> THEN Append(row_data, Str(button)) ELSE row_data

\* line 74: the literal appended to a footer row
TotalLabel == <<"T", "o", "t", "a", "l">>

\* line 86 (mutant: the row is put in front)
AppendRow_Front(rs, row_data) == <<row_data>> \o rs
\* line 86: rows.append(row_data)
AppendRow(rs, row_data) == Append(rs, row_data)

\* lines 63-65: the locals before the loop
LoopStart == [current_classification |-> <<>>, second_last_item |-> <<>>, rows |-> <<>>]

\* lines 70-86: one iteration of the loop, from the locals st
RowStep(t, button, st, row) ==
    LET row_data == RowData(row)
        emit(c) == AppendRow(st.rows, WithButton(Append(row_data, Str(c)), button))
    IN  IF InFooter(t, row)
        THEN [st EXCEPT !.rows = emit(TotalLabel)]
        ELSE IF "tb_item" \in row.cls
        THEN [current_classification |-> row_data[1].s,
              second_last_item |-> row_data[1].s,
              rows |-> emit(row_data[1].s)]
        ELSE IF "tb_subitem" \in row.cls
        THEN [st EXCEPT !.rows = emit(st.second_last_item)]
        ELSE [st EXCEPT !.rows = emit(<<>>)]

RECURSIVE LoopFrom(_, _, _, _)
LoopFrom(t, button, st, k) ==
    IF k > Len(t.rows) THEN st
    ELSE LoopFrom(t, button, RowStep(t, button, st, t.rows[k]), k + 1)

\* lines 58-87: the whole call
ExtractTableData(t, button) ==
    [columns |-> Headers(t, button), rows |-> LoopFrom(t, button, LoopStart, 1).rows]

\* lines 58-65 (mutant: the carried classification is not set again when a
\* call starts)
ExtractStart_KeepsLocals ==
    /\ pc = "extract_start"
    /\ headers' = Headers(table, classification_button)
    /\ rows' = LoopStart.rows
    /\ idx' = 0
    /\ pc' = "extract_loop"
    /\ UNCHANGED <<entry, cls, table, classification_button, df, runVars,
                   current_classification, second_last_item>>
\* The same call, one loop iteration at a time.
ExtractStart ==
    /\ pc = "extract_start"
    /\ headers' = Headers(table, classification_button)
    /\ current_classification' = LoopStart.current_classification
    /\ second_last_item' = LoopStart.second_last_item
    /\ rows' = LoopStart.rows
    /\ idx' = 0
    /\ pc' = "extract_loop"
    /\ UNCHANGED <<entry, cls, table, classification_button, df, runVars>>

ExtractRow ==
    /\ pc = "extract_loop"
    /\ idx < Len(table.rows)
    /\ LET st == RowStep(table, classification_button,
                         [current_classification |-> current_classification,
                          second_last_item |-> second_last_item,
                          rows |-> rows],
                         table.rows[idx + 1])
       IN  /\ current_classification' = st.current_classification
           /\ second_last_item' = st.second_last_item
           /\ rows' = st.rows
    /\ idx' = idx + 1
    /\ UNCHANGED <<pc, entry, cls, table, classification_button, headers, df, runVars>>

\* line 87
ExtractReturn ==
    /\ pc = "extract_loop"
    /\ idx = Len(table.rows)
    /\ df' = [columns |-> headers, rows |-> rows]
    /\ pc' = "extract_done"
    /\ UNCHANGED <<entry, cls, table, classification_button, idx, headers,
                   current_classification, second_last_item, rows, runVars>>

\* the values the variables of the scraper object hold when it is not in use
IdleRun ==
    /\ years = <<>> /\ buttons = <<>> /\ yi = 0 /\ bi = 0
    /\ html = NoPage /\ data = NoFrame /\ dados = Unset
    /\ exc = "none" /\ log = <<>> /\ raw = NoFrame

\* the values the variables of extract_table_data hold outside a call
IdleExtract ==
    /\ table = NoTable /\ classification_button = <<>> /\ idx = 0
    /\ headers = <<>> /\ current_classification = <<>>
    /\ second_last_item = <<>> /\ rows = <<>> /\ df = NoFrame

ButtonLabels == {<<>>, <<"B">>}

InitExtract ==
    /\ pc = "extract_start"
    /\ entry = "extract_table_data"
    /\ cls = "WebScraper"
    /\ table \in GeneratedTables
    /\ classification_button \in ButtonLabels
    /\ idx = 0
    /\ headers = <<>>
    /\ current_classification = <<>>
    /\ second_last_item = <<>>
    /\ rows = <<>>
    /\ df = NoFrame
    /\ IdleRun

NextExtract == ExtractStart \/ ExtractRow \/ ExtractReturn

SpecExtract == InitExtract /\ [][NextExtract]_vars

----------------------------------------------------------------------------
(* Claims about extract_table_data, checked under SpecExtract *)

\* position of the Classification column in an extracted record
ClassificationAt(t) == Len(t.header) + 1

\* row kinds of the specification: a footer row is a Total row whatever its
\* markup; of the others, the first cell's hint decides
IsTotalRow(r) == r.foot
IsCategoryRow(r) == ~r.foot /\ "tb_item" \in r.cls
IsSubItemRow(r) == ~r.foot /\ "tb_item" \notin r.cls /\ "tb_subitem" \in r.cls

\* C1: every SubItem row that follows a Category row R, with no other
\* Category row between them, has R's first-column text as classification.
C1_SubItemInheritsCategory ==
    pc = "extract_done" =>
        \A i \in 1..Len(table.rows) : \A j \in 1..(i - 1) :
            ( /\ IsSubItemRow(table.rows[i])
              /\ IsCategoryRow(table.rows[j])
              /\ \A k \in (j + 1)..(i - 1) : ~IsCategoryRow(table.rows[k]) )
            => df.rows[i][ClassificationAt(table)] = Str(Strip(table.rows[j].cells[1]))

\* C2: every row inside the footer yields a record whose classification is
\* 'Total', whatever hint its first cell carries.
C2_FooterRowsAreTotal ==
    pc = "extract_done" =>
        \A i \in 1..Len(table.rows) :
            IsTotalRow(table.rows[i])
            => df.rows[i][ClassificationAt(table)] = Str(TotalLabel)

C2_Witness ==
    /\ pc = "extract_done"
    /\ \E i, j \in 1..Len(table.rows) :
          /\ table.rows[i].foot /\ table.rows[i].cls = {"tb_item"}
          /\ table.rows[j].foot /\ table.rows[j].cls = {"tb_subitem"}
          /\ df.rows[i][ClassificationAt(table)] = Str(TotalLabel)
          /\ df.rows[j][ClassificationAt(table)] = Str(TotalLabel)

----------------------------------------------------------------------------
(* Classes and method lookup *)

\* the methods class WebScraper defines (lines 8-159)
WebScraperMethods ==
    {"__init__", "get_html_content", "parse_html", "find_data_table",
     "extract_table_data", "run_scraping", "create_parameters", "get_buttons",
     "clean_data"}

\* those of them whose body is "raise NotImplementedError" (lines 121-137)
AbstractMethods == {"create_parameters", "get_buttons"}

\* the five subclasses of the file, and the methods each of them defines
\* (lines 162-490)
SiteKinds ==
    {"SiteExportacaoScraper", "SiteImportacaoScraper", "SiteProcessamentoScraper",
     "SiteProducaoScraper", "SiteComercializacaoScraper"}
SiteMethods == {"__init__", "get_params", "transform_dados", "run", "get_botoes"}

\* a subclass that overrides the two abstract methods, as their docstrings ask
HookSubclass == "subclass overriding get_buttons and create_parameters"

OwnMethods(c) ==
    IF c \in SiteKinds THEN SiteMethods
    ELSE IF c = HookSubclass THEN AbstractMethods
    ELSE WebScraperMethods

\* self.m() on an instance of subclass c finds a body that does not raise
\* NotImplementedError
Overrides(c, m) == m \in OwnMethods(c)

\* super().m() in a subclass of WebScraper finds a method
SuperHas(m) == m \in WebScraperMethods

----------------------------------------------------------------------------
(* The inputs of a run *)

YearValues == {2020, 2021}

SeqsUpTo(S, n) == UNION { [1..k -> S] : k \in 0..n }

YearLists == SeqsUpTo(YearValues, MaxYears) \cup {<<2022>>}

\* the buttons a get_buttons() override returns
Button1 == [value |-> "subopt_01", classification_button |-> <<"B">>]
Button2 == [value |-> "subopt_02", classification_button |-> <<"C">>]
ButtonLists == {<<>>, <<Button1>>, <<Button1, Button2>>}

\* the table of the end-to-end scenario
TableProducao ==
    [header |-> <<"Produto", "Quantidade (L.)">>,
     rows |-> <<
        [cls |-> {"tb_item"}, mk |-> 0, foot |-> FALSE,
         cells |-> << <<"V","I","N","H","O"," ","D","E"," ","M","E","S","A">>,
                      <<"1","0",".","0","0","0">> >>],
        [cls |-> {"tb_subitem"}, mk |-> 0, foot |-> FALSE,
         cells |-> << <<"t","i","n","t","o">>, <<"4",".","0","0","0">> >>],
        [cls |-> {}, mk |-> 0, foot |-> TRUE,
         cells |-> << <<"T","O","T","A","L">>, <<"1","4",".","0","0","0">> >> ] >>]

\* a table of another shape: other columns, an accented text, a sentinel
TableOther ==
    [header |-> <<"Sem definicao", "Quantidade (Kg)">>,
     rows |-> <<
        [cls |-> {}, mk |-> 0, foot |-> FALSE,
         cells |-> << <<" ","c","a","f","e_acute">>, <<"-">> >>] >>]

ScrapeTables == {TableProducao, TableOther}

\* what a fetched page holds for line 48: the data table, or none
Pages == {[table |-> NoTable]} \cup {[table |-> t] : t \in ScrapeTables}

----------------------------------------------------------------------------
(* run_scraping, src/app.py lines 89-119 *)

\* the label passed to extract_table_data: line 102, or the default of
\* line 113
CurButton == IF buttons = <<>> THEN <<>> ELSE buttons[bi].classification_button

\* where the loops continue after one combination
LoopHead == IF buttons = <<>> THEN "ForEachYear" ELSE "ForEachCategory"

\* lines 93-95: the next year and its button list; line 119 follows the loop
ForEachYear ==
    /\ pc = "ForEachYear"
    /\ IF yi < Len(years)
       THEN /\ yi' = yi + 1
            /\ bi' = 0
            /\ IF Overrides(cls, "get_buttons")
               THEN /\ pc' = IF buttons = <<>> THEN "Fetch" ELSE "ForEachCategory"
                    /\ exc' = exc
               ELSE /\ pc' = "raised"
                    /\ exc' = "NotImplementedError"
       ELSE /\ pc' = "Normalize"
            /\ UNCHANGED <<yi, bi, exc>>
    /\ UNCHANGED <<entry, cls, exVars, years, buttons, html, data, dados, log, raw>>

\* line 96
ForEachCategory ==
    /\ pc = "ForEachCategory"
    /\ IF bi < Len(buttons)
       THEN bi' = bi + 1 /\ pc' = "Fetch"
       ELSE bi' = bi /\ pc' = "ForEachYear"
    /\ UNCHANGED <<entry, cls, exVars, years, buttons, yi, html, data, dados, exc, log, raw>>

LogEntry(outcome) ==
    [year |-> years[yi], at |-> <<yi, bi>>, button |-> CurButton,
     outcome |-> outcome, page |-> NoPage]

\* lines 97-98 and 108-109 (mutant: a failed request is caught and the
\* loops go on)
Fetch_Swallows ==
    /\ pc = "Fetch"
    /\ \/ \E page \in Pages :
             /\ html' = page
             /\ log' = Append(log, [LogEntry("fetched") EXCEPT !.page = page])
             /\ pc' = "Locate"
       \/ /\ html' = html
          /\ log' = Append(log, LogEntry("failed"))
          /\ pc' = LoopHead
    /\ UNCHANGED <<entry, cls, exVars, years, buttons, yi, bi, data, dados, exc, raw>>
\* lines 97-98 and 108-109: the blocking request; raise_for_status or the
\* transport may raise, and nothing in the file catches it
Fetch ==
    /\ pc = "Fetch"
    /\ \/ \E page \in Pages :
             /\ html' = page
             /\ log' = Append(log, [LogEntry("fetched") EXCEPT !.page = page])
             /\ pc' = "Locate"
             /\ exc' = exc
       \/ /\ html' = html
          /\ log' = Append(log, LogEntry("failed"))
          /\ pc' = "raised"
          /\ exc' = "RequestException"
    /\ UNCHANGED <<entry, cls, exVars, years, buttons, yi, bi, data, dados, raw>>

\* lines 99-101 and 110-112 (mutant: a table that is found is left
\* unprocessed and the loops go on)
Locate_SkipsExtract ==
    /\ pc = "Locate"
    /\ table' = html.table
    /\ pc' = IF IsNone(html.table) THEN "NotFound" ELSE LoopHead
    /\ UNCHANGED <<entry, cls, classification_button, idx, headers,
                   current_classification, second_last_item, rows, df, runVars>>
\* lines 99-101 and 110-112
Locate ==
    /\ pc = "Locate"
    /\ table' = html.table
    /\ pc' = IF IsNone(html.table) THEN "NotFound" ELSE "Extract"
    /\ UNCHANGED <<entry, cls, classification_button, idx, headers,
                   current_classification, second_last_item, rows, df, runVars>>

\* lines 102-103 and 113-114
Extract ==
    /\ pc = "Extract"
    /\ df' = WithColumn(ExtractTableData(table, CurButton), "Year", IntV(years[yi]))
    /\ log' = [log EXCEPT ![Len(log)].outcome = "extracted"]
    /\ pc' = "Accumulate"
    /\ UNCHANGED <<entry, cls, table, classification_button, idx, headers,
                   current_classification, second_last_item, rows,
                   years, buttons, yi, bi, html, data, dados, exc, raw>>

\* lines 104 and 115
Accumulate ==
    /\ pc = "Accumulate"
    /\ data' = Concat(data, df)
    /\ pc' = LoopHead
    /\ UNCHANGED <<entry, cls, exVars, years, buttons, yi, bi, html, dados, exc, log, raw>>

\* lines 105-106 (mutant: a missing table is raised, not reported)
NotFound_Raises ==
    /\ pc = "NotFound"
    /\ log' = [log EXCEPT ![Len(log)].outcome = "absent"]
    /\ pc' = "raised"
    /\ exc' = "LookupError"
    /\ UNCHANGED <<entry, cls, exVars, years, buttons, yi, bi, html, data, dados, raw>>
\* lines 105-106 and 116-117: the message is printed, nothing else happens
NotFound ==
    /\ pc = "NotFound"
    /\ log' = [log EXCEPT ![Len(log)].outcome = "absent"]
    /\ pc' = LoopHead
    /\ UNCHANGED <<entry, cls, exVars, years, buttons, yi, bi, html, data, dados, exc, raw>>

\* line 119, and the return of run_scraping
Normalize ==
    /\ pc = "Normalize"
    /\ raw' = data
    /\ data' = CleanData(data)
    /\ pc' = "returned"
    /\ UNCHANGED <<entry, cls, exVars, years, buttons, yi, bi, html, dados, exc, log>>

----------------------------------------------------------------------------
(* run() of the five subclasses: lines 220-222, 295-297, 375-377, 436-438,  *)
(* 488-490                                                                 *)

\* "super().run()": the lookup starts at WebScraper; when it finds nothing
\* the call raises AttributeError and run() is left with it
Run ==
    /\ pc = "run"
    /\ IF SuperHas("run")
       THEN pc' = "super_run" /\ exc' = exc
       ELSE pc' = "raised" /\ exc' = "AttributeError"
    /\ UNCHANGED <<entry, cls, exVars, years, buttons, yi, bi, html, data, dados, log, raw>>

Init ==
    /\ cls \in SiteKinds \cup {HookSubclass}
    /\ entry \in (IF cls \in SiteKinds THEN {"run", "run_scraping"} ELSE {"run_scraping"})
    /\ pc = IF entry = "run" THEN "run" ELSE "ForEachYear"
    /\ years \in YearLists
    /\ buttons \in (IF cls = HookSubclass THEN ButtonLists ELSE {<<>>})
    /\ yi = 0 /\ bi = 0
    /\ html = NoPage
    /\ data = NoFrame
    /\ dados = Unset
    /\ exc = "none"
    /\ log = <<>>
    /\ raw = NoFrame
    /\ IdleExtract

Next ==
    \/ Run
    \/ ForEachYear \/ ForEachCategory
    \/ Fetch \/ Locate \/ Extract \/ Accumulate \/ NotFound
    \/ Normalize

Spec == Init /\ [][Next]_vars

----------------------------------------------------------------------------
(* Claims about run_scraping, checked under Spec *)

\* the fetch of log entry n has been extracted and appended to self.data
Appended(n) ==
    log[n].outcome = "extracted" /\ ~(pc \in {"Accumulate"} /\ n = Len(log))

\* the records extract_table_data gives for the page of log entry n
RecordsOf(n) == ExtractTableData(log[n].page.table, log[n].button)

RowCount(n) == IF Appended(n) THEN Len(RecordsOf(n).rows) ELSE 0

RECURSIVE RowsBefore(_)
RowsBefore(n) == IF n <= 1 THEN 0 ELSE RowsBefore(n - 1) + RowCount(n - 1)

\* the dataset as the accumulation loop left it: line 119 rewrites the text
\* cells afterwards
Accumulated == IF pc = "returned" THEN raw ELSE data

LexLess(a, b) == a[1] < b[1] \/ (a[1] = b[1] /\ a[2] < b[2])

\* fetches are issued in iteration order, years outer and buttons inner, and
\* the dataset is the per-fetch record sequences one after the other, each
\* record with its own cells, the year of its fetch, and NaN elsewhere
ConcatenationInOrder ==
    /\ \A m, n \in 1..Len(log) : m < n => LexLess(log[m].at, log[n].at)
    /\ \A n \in 1..Len(log) : log[n].year = years[log[n].at[1]]
    /\ Len(Accumulated.rows) = RowsBefore(Len(log) + 1)
    /\ \A n \in 1..Len(log) : \A k \in 1..RowCount(n) :
          LET rec == RecordsOf(n)
              at == RowsBefore(n) + k
          IN  /\ \A j \in 1..Len(rec.columns) :
                    Cell(Accumulated, at, rec.columns[j]) = rec.rows[k][j]
              /\ Cell(Accumulated, at, "Year") = IntV(log[n].year)
              /\ \A j \in 1..Len(Accumulated.columns) :
                    (~HasCol(rec, Accumulated.columns[j]) /\ Accumulated.columns[j] # "Year")
                    => IsNaN(Accumulated.rows[at][j])

YearOf(r) == Cell(data, r, "Year").i

\* every record of year y1 stands before every record of year y2
RecordsPrecede(y1, y2) ==
    \A p, q \in 1..Len(data.rows) :
        (YearOf(p) = y1 /\ YearOf(q) = y2) => p < q

\* every occurrence of y1 in self.years stands before every occurrence of y2
IteratedBefore(y1, y2) ==
    \A a, b \in 1..Len(years) : (years[a] = y1 /\ years[b] = y2) => a < b

C5_NotFoundIsSkipped ==
    /\ [][pc = "NotFound" =>
            (pc' = LoopHead /\ exc' = "none" /\ data' = data)]_vars
    /\ [](pc = "returned" =>
            /\ exc = "none"
            /\ Len(log) = Len(years) * (IF buttons = <<>> THEN 1 ELSE Len(buttons))
            /\ \A n \in 1..Len(log) : log[n].outcome \in {"extracted", "absent"}
            /\ \A y \in 1..Len(years) :
                  \A b \in (IF buttons = <<>> THEN {0} ELSE 1..Len(buttons)) :
                      \E n \in 1..Len(log) : log[n].at = <<y, b>>)

C5_Witness ==
    /\ pc = "returned"
    /\ Len(log) = 4
    /\ log[2].outcome = "absent"
    /\ log[3].outcome = "extracted"
    /\ log[4].outcome = "absent"
    /\ Len(data.rows) = 3

----------------------------------------------------------------------------
(* clean_data on its own: self.data is any frame of text, integer and      *)
(* missing cells                                                           *)

CleanAlphabet == {"-", "*", " ", "e_acute"}

Cafe == <<"c", "a", "f", "e_acute">>

CleanTexts == SeqsUpTo(CleanAlphabet, MaxText) \cup {Cafe}

CleanValues == {Str(t) : t \in CleanTexts} \cup {NaN}

FewValues == {Str(<<" ", "*">>), Str(Cafe), NaN}

CleanFrames ==
    { [columns |-> <<"Produto", "Classification", "Year">>,
       rows |-> << <<v, w, IntV(2020)>>, <<u, Str(<<"a_tilde", "-">>), IntV(2021)>> >>] :
         v \in CleanValues, w \in FewValues, u \in FewValues }

InitClean ==
    /\ pc = "Normalize"
    /\ entry = "clean_data"
    /\ cls = "WebScraper"
    /\ data \in CleanFrames
    /\ years = <<>> /\ buttons = <<>> /\ yi = 0 /\ bi = 0
    /\ html = NoPage /\ dados = Unset
    /\ exc = "none" /\ log = <<>> /\ raw = NoFrame
    /\ IdleExtract

NextClean == Normalize

SpecClean == InitClean /\ [][NextClean]_vars

\* the upper-case, accent-free form of each character of the alphabet
FoldedChar(c) ==
    CASE c = "e_acute" -> "E"
      [] c = "a_tilde" -> "A"
      [] c = "c_cedilla" -> "C"
      [] c = "a" -> "A"
      [] c = "c" -> "C"
      [] c = "f" -> "F"
      [] OTHER -> c

FoldedUpper(t) == [k \in 1..Len(t) |-> FoldedChar(t[k])]

\* C7: a text value whose trimmed form is '-' or '*' becomes '0', any other
\* text value becomes its accent-free upper-case form ('cafe' with an
\* accent gives 'CAFE'), any other value is unchanged, and this holds in
\* every column.
C7_NormalizerOnEveryTextCell ==
    pc = "returned" =>
        /\ data.columns = raw.columns
        /\ Len(data.rows) = Len(raw.rows)
        /\ \A r \in 1..Len(raw.rows) : \A j \in 1..Len(raw.columns) :
              LET v == raw.rows[r][j]
                  w == data.rows[r][j]
              IN  IF IsStr(v)
                  THEN /\ IsStr(w)
                       /\ IF Strip(v.s) = <<"-">> \/ Strip(v.s) = <<"*">>
                          THEN w.s = <<"0">>
                          ELSE w.s = FoldedUpper(v.s)
                       /\ (v.s = Cafe => w.s = <<"C", "A", "F", "E">>)
                  ELSE w = v

C7_Witness ==
    /\ pc = "returned"
    /\ entry = "clean_data"
    /\ raw.rows[1][1] = Str(<<" ", "-", " ">>)
    /\ data.rows[1][1] = Str(<<"0">>)
    /\ raw.rows[1][2] = Str(Cafe)
    /\ data.rows[1][2] = Str(<<"C", "A", "F", "E">>)
    /\ IsNaN(data.rows[2][1])
    /\ data.rows[2][3] = IntV(2021)

----------------------------------------------------------------------------
(* Numeric coercion of a column: lines 424 and 427 (and 200-209, 275-284,   *)
(* 363-366, 474-477, which repeat them)                                    *)

DigitChars == <<"0", "1", "2", "3", "4", "5", "6", "7", "8", "9">>
IsDigit(c) == \E k \in 1..10 : DigitChars[k] = c
DigitValue(c) == (CHOOSE k \in 1..10 : DigitChars[k] = c) - 1

RECURSIVE NatText(_)
NatText(n) ==
    IF n < 10 THEN <<DigitChars[n + 1]>>
    ELSE NatText(n \div 10) \o <<DigitChars[(n % 10) + 1]>>

\* astype(str) of one value of an object or int64 column
AsText(v) ==
    IF IsStr(v) THEN v.s
    ELSE IF IsInt(v) THEN (IF v.i < 0 THEN <<"-">> \o NatText(-v.i) ELSE NatText(v.i))
    ELSE <<"n", "a", "n">>

\* .str.replace('.', ''): a one-character pattern is taken literally
RemoveDots(t) == LET kept(c) == c # "." IN SelectSeq(t, kept)

RECURSIVE DigitsValue(_)
DigitsValue(t) ==
    IF t = <<>> THEN 0
    ELSE DigitsValue(SubSeq(t, 1, Len(t) - 1)) * 10 + DigitValue(t[Len(t)])

IsDigits(t) == t # <<>> /\ \A k \in 1..Len(t) : IsDigit(t[k])
Unsigned(t) == IF t # <<>> /\ Head(t) \in {"+", "-"} THEN Tail(t) ELSE t
Sign(t) == IF t # <<>> /\ Head(t) = "-" THEN -1 ELSE 1

\* the spellings of infinity pandas' number parser accepts, in any case
InfinityWords == {<<"I", "N", "F">>, <<"I", "N", "F", "I", "N", "I", "T", "Y">>}

\* pd.to_numeric(..., errors='coerce') of one text: an integer, an
\* infinity, or NaN for what does not parse
ToNumeric(t) ==
    IF IsDigits(Unsigned(t)) THEN [kind |-> "int", n |-> Sign(t) * DigitsValue(Unsigned(t))]
    ELSE IF Upper(Unsigned(t)) \in InfinityWords THEN [kind |-> "inf", n |-> 0]
    ELSE [kind |-> "nan", n |-> 0]

\* lines 424 and 427 on column c: .fillna(0) turns NaN into 0 and leaves an
\* infinity, on which .astype(int) raises ValueError
CoerceColumn(f, c) ==
    LET j == ColIndex(f, c)
        num(r) == ToNumeric(RemoveDots(AsText(f.rows[r][j])))
    IN  [raised |-> \E r \in 1..Len(f.rows) : num(r).kind = "inf",
         frame |-> [f EXCEPT !.rows =
                      [r \in 1..Len(f.rows) |->
                          [f.rows[r] EXCEPT ![j] =
                              IntV(IF num(r).kind = "int" THEN num(r).n ELSE 0)]]]]

\* the two lines applied to self.dados['Quantidade'], a first and a second
\* time; raw keeps the column as given and data the first result
CoerceQuantidade ==
    /\ pc \in {"coerce", "coerced"}
    /\ LET res == CoerceColumn(dados, "Quantidade")
       IN  IF res.raised
           THEN /\ pc' = "raised"
                /\ exc' = "ValueError"
                /\ UNCHANGED <<dados, raw, data>>
           ELSE /\ pc' = IF pc = "coerce" THEN "coerced" ELSE "coerced_twice"
                /\ raw' = IF pc = "coerce" THEN dados ELSE raw
                /\ data' = IF pc = "coerce" THEN res.frame ELSE data
                /\ dados' = res.frame
                /\ exc' = exc
    /\ UNCHANGED <<entry, cls, exVars, years, buttons, yi, bi, html, log>>

CoerceAlphabet == {"1", "2", ".", "-", "d", "i", "n", "f"}

Text1234 == <<"1", ".", "2", "3", "4">>
TextND == <<"n", "/", "d">>

CoerceTexts == SeqsUpTo(CoerceAlphabet, MaxText) \cup {Text1234, TextND}

CoerceValues ==
    {Str(t) : t \in CoerceTexts} \cup {IntV(0), IntV(7), IntV(1234), IntV(-5), NaN}

InitCoerce ==
    /\ pc = "coerce"
    /\ entry = "coerce"
    /\ cls \in SiteKinds
    /\ dados \in { [columns |-> <<"Quantidade">>, rows |-> <<<<v>>>>] : v \in CoerceValues }
    /\ years = <<>> /\ buttons = <<>> /\ yi = 0 /\ bi = 0
    /\ html = NoPage /\ data = NoFrame
    /\ exc = "none" /\ log = <<>> /\ raw = NoFrame
    /\ IdleExtract

NextCoerce == CoerceQuantidade

SpecCoerce == InitCoerce /\ [][NextCoerce]_vars

\* the text is an optional sign and decimal digits once its '.' are removed
ParsesAsInteger(t) == IsDigits(Unsigned(RemoveDots(t)))

\* what the first coercion made of the cell it was given
CoercionIsRight ==
    pc \in {"coerced", "coerced_twice"} =>
        LET v == raw.rows[1][1]
            w == data.rows[1][1]
        IN  /\ IsInt(w)
            /\ (IsStr(v) /\ ParsesAsInteger(v.s))
                   => w.i = Sign(RemoveDots(v.s)) * DigitsValue(Unsigned(RemoveDots(v.s)))
            /\ (IsStr(v) /\ ~ParsesAsInteger(v.s)) => w.i = 0
            /\ v = Str(Text1234) => w.i = 1234
            /\ v \in {Str(<<>>), Str(TextND)} => w.i = 0
            /\ IsInt(v) => w = v

\* a second coercion gives what the first gave
CoercionIsIdempotent == pc = "coerced_twice" => dados = data

\* C8: coercion removes the '.' separators and parses the rest as an
\* integer, gives 0 for what does not parse, never fails, and is idempotent.
C8_CoercionNeverFails ==
    /\ pc # "raised"
    /\ CoercionIsRight
    /\ CoercionIsIdempotent

----------------------------------------------------------------------------
(* transform_dados: lines 405-434 (SiteProducaoScraper) and 455-485         *)
(* (SiteComercializacaoScraper), which are the same statements; lines      *)
(* 179-180, 254-255 and 329-330 for the other three.  The column names     *)
(* 'Classificação' is written Classificacao here.                          *)

\* the subclasses whose transform_dados starts with super().transform_dados()
CallsSuperTransform ==
    {"SiteExportacaoScraper", "SiteImportacaoScraper", "SiteProcessamentoScraper"}

\* DataFrame.rename(columns={old: new}); nothing happens when old is absent
Rename(f, old, new) ==
    [f EXCEPT !.columns =
        [k \in 1..Len(f.columns) |-> IF f.columns[k] = old THEN new ELSE f.columns[k]]]

\* lines 430 and 481
Colunas == <<"Produto", "Classificacao", "Ano", "Quantidade">>

\* lines 431 and 482: self.dados[colunas], every name being a column
SelectColumns(f, cols) == [columns |-> cols, rows |-> Reindex(f, cols)]

TOTAL == <<"T", "O", "T", "A", "L">>

\* lines 434 and 485: a row is kept unless both columns are 'TOTAL'
KeepRow(f, r) ==
    Cell(f, r, "Produto") # Str(TOTAL) \/ Cell(f, r, "Classificacao") # Str(TOTAL)

RECURSIVE KeptFrom(_, _)
KeptFrom(f, r) ==
    IF r > Len(f.rows) THEN <<>>
    ELSE (IF KeepRow(f, r) THEN <<f.rows[r]>> ELSE <<>>) \o KeptFrom(f, r + 1)

DropTotals(f) == [f EXCEPT !.rows = KeptFrom(f, 1)]

\* lines 416-434 on the frame f: the exception that ends them, or the result
TransformProducao(f) ==
    LET renamed == Rename(CleanData(f), "Quantidade (L.)", "Quantidade")
    IN  IF ~HasCol(renamed, "Quantidade")
        THEN [exc |-> "KeyError", frame |-> f]
        ELSE LET coerced == CoerceColumn(renamed, "Quantidade")
             IN  IF coerced.raised
                 THEN [exc |-> "ValueError", frame |-> f]
                 ELSE IF \E k \in 1..Len(Colunas) : ~HasCol(coerced.frame, Colunas[k])
                 THEN [exc |-> "KeyError", frame |-> f]
                 ELSE [exc |-> "none",
                       frame |-> DropTotals(SelectColumns(coerced.frame, Colunas))]

\* one call of transform_dados
TransformDados ==
    /\ pc = "transform"
    /\ raw' = dados
    /\ IF cls \in CallsSuperTransform
       THEN IF SuperHas("transform_dados")
            THEN pc' = "super_transform" /\ exc' = exc /\ dados' = dados
            ELSE pc' = "raised" /\ exc' = "AttributeError" /\ dados' = dados
       ELSE IF dados = Unset
            THEN pc' = "raised" /\ exc' = "AttributeError" /\ dados' = dados
            ELSE LET res == TransformProducao(dados)
                 IN  /\ exc' = res.exc
                     /\ dados' = res.frame
                     /\ pc' = IF res.exc = "none" THEN "transformed" ELSE "raised"
    /\ UNCHANGED <<entry, cls, exVars, years, buttons, yi, bi, html, data, log>>

Total == <<"T", "o", "t", "a", "l">>
Tinto == <<"t", "i", "n", "t", "o">>
VinhoDeMesa == <<"V", "I", "N", "H", "O", " ", "D", "E", " ", "M", "E", "S", "A">>

DadosRows ==
    { <<Str(p), Str(q), Str(c), IntV(2022)>> :
        p \in {Total, Tinto},
        q \in {<<"4", ".", "0", "0", "0">>, <<"-">>},
        c \in {Total, <<>>, VinhoDeMesa} }

\* frames with the columns transform_dados reads
DadosFrames ==
    { [columns |-> <<"Produto", "Quantidade (L.)", "Classificacao", "Ano">>, rows |-> rs] :
        rs \in SeqsUpTo(DadosRows, MaxDadosRows) }

\* the frame of the end-to-end scenario under those column names
ScenarioDados ==
    [columns |-> <<"Produto", "Quantidade (L.)", "Classificacao", "Ano">>,
     rows |-> << <<Str(VinhoDeMesa), Str(<<"1","0",".","0","0","0">>), Str(VinhoDeMesa), IntV(2022)>>,
                 <<Str(Tinto), Str(<<"4",".","0","0","0">>), Str(VinhoDeMesa), IntV(2022)>>,
                 <<Str(TOTAL), Str(<<"1","4",".","0","0","0">>), Str(Total), IntV(2022)>> >>]

\* the frame run_scraping leaves in self.data for the scenario
ScenarioData ==
    CleanData(Concat(NoFrame,
        WithColumn(ExtractTableData(TableProducao, <<>>), "Year", IntV(2022))))

\* a frame of the processing kind's button without classification: a
\* 'Sem definicao' column, no Cultivar column
SemClassDados ==
    [columns |-> <<"Sem definicao", "Quantidade (Kg)", "Classificacao", "Ano", "Botao">>,
     rows |-> << <<Str(Tinto), Str(<<"4", ".", "0", "0", "0">>), Str(EmptyText),
                   IntV(2022), Str(<<"B">>)>> >>]

InitTransform ==
    /\ pc = "transform"
    /\ entry = "transform_dados"
    /\ cls \in SiteKinds
    /\ dados \in DadosFrames \cup {ScenarioDados, ScenarioData, SemClassDados, Unset}
    /\ years = <<>> /\ buttons = <<>> /\ yi = 0 /\ bi = 0
    /\ html = NoPage /\ data = NoFrame
    /\ exc = "none" /\ log = <<>> /\ raw = NoFrame
    /\ IdleExtract

NextTransform == TransformDados

SpecTransform == InitTransform /\ [][NextTransform]_vars

\* C6: after the transform no row has its product or classification column
\* equal to 'TOTAL'.
C6_NoTotalRowLeft ==
    pc = "transformed" =>
        \A r \in 1..Len(dados.rows) :
            /\ Cell(dados, r, "Produto") # Str(TOTAL)
            /\ Cell(dados, r, "Classificacao") # Str(TOTAL)

----------------------------------------------------------------------------
(* Claims about run(), checked under Spec *)

\* the entry method has returned or has been left by an exception
Terminated == pc \in {"returned", "raised", "Done"}

\* the two rows of the end-to-end scenario
ScenarioResult ==
    [columns |-> Colunas,
     rows |-> << <<Str(VinhoDeMesa), Str(VinhoDeMesa), IntV(2022), IntV(10000)>>,
                 <<Str(Upper(Tinto)), Str(VinhoDeMesa), IntV(2022), IntV(4000)>> >>]

\* C9: the Production scraper run for year 2022 on the scenario's table
\* ends with exactly the scenario's two rows, the TOTAL row dropped.
C9_EndToEndScenario ==
    (entry = "run" /\ cls = "SiteProducaoScraper" /\ years = <<2022>> /\ Terminated)
    => (exc = "none" /\ dados = ScenarioResult)

\* every (year, button) combination of the run has been fetched
AllCombinationsFetched ==
    Len(log) = Len(years) * (IF buttons = <<>> THEN 1 ELSE Len(buttons))

\* C10: with every fetch succeeding run() ends in Done, and Normalize comes
\* only after every combination has been accumulated.
C10_RunReachesDone ==
    entry = "run" =>
        /\ (Terminated /\ \A n \in 1..Len(log) : log[n].outcome # "failed") => pc = "Done"
        /\ pc = "Normalize" => AllCombinationsFetched

----------------------------------------------------------------------------
(* Claims about a failed fetch, checked under Spec *)

\* some request of the run has failed
FetchFailed == \E n \in 1..Len(log) : log[n].outcome = "failed"

\* C11: a fetch that fails with a transport error ends the run with that
\* error: the failed fetch is the last one, the method does not return,
\* and nothing runs afterwards (no Normalize, no transform, no new fetch).
C11_TransportErrorPropagates ==
    /\ [](FetchFailed =>
            /\ pc = "raised"
            /\ exc = "RequestException"
            /\ log[Len(log)].outcome = "failed"
            /\ \A n \in 1..(Len(log) - 1) : log[n].outcome # "failed"
            /\ dados = Unset)
    /\ [][FetchFailed => UNCHANGED vars]_vars
    /\ [][(pc = "Fetch" /\ pc' # "Locate") => (pc' = "raised" /\ data' = data)]_vars

\* a fetch fails after an earlier combination was accumulated and while
\* combinations are left
C11_Witness ==
    /\ pc = "raised"
    /\ exc = "RequestException"
    /\ Len(log) = 2
    /\ log[1].outcome = "extracted"
    /\ log[2].outcome = "failed"
    /\ Len(data.rows) > 0
    /\ Len(years) * Len(buttons) = 4

----------------------------------------------------------------------------
(* Claims about the classification column, checked under SpecExtract *)

\* C12: once a Category row has been seen in the table, the record of that
\* row and of every later row has a non-empty classification.
C12_ClassifiedOnceCategorySeen ==
    pc = "extract_done" =>
        \A i \in 1..Len(table.rows) : \A j \in 1..i :
            IsCategoryRow(table.rows[j])
            => df.rows[i][ClassificationAt(table)] # Str(EmptyText)

----------------------------------------------------------------------------
(* Claims about the processing kind's transform, checked under             *)
(* SpecTransform; raw is self.dados as the call found it                   *)

\* the call of transform_dados is over
TransformOver == pc # "transform"

\* C13: the processing kind's transform completes, and then: an input with
\* no Cultivar column but a Classificacao column has Cultivar equal to
\* Classificacao on every row; an input with a 'Sem definicao' column has
\* that column dropped and, where Cultivar was missing and 'Sem definicao'
\* was present, Cultivar equal to the 'Sem definicao' value.
C13_CultivarBackfill ==
    (cls = "SiteProcessamentoScraper" /\ raw # Unset /\ TransformOver) =>
        /\ pc = "transformed"
        /\ (~HasCol(raw, "Cultivar") /\ HasCol(raw, "Classificacao")) =>
              /\ HasCol(dados, "Cultivar")
              /\ \A r \in 1..Len(dados.rows) :
                    Cell(dados, r, "Cultivar") = Cell(dados, r, "Classificacao")
        /\ HasCol(raw, "Sem definicao") =>
              /\ ~HasCol(dados, "Sem definicao")
              /\ HasCol(raw, "Cultivar") =>
                    \A r \in 1..Len(raw.rows) :
                        (IsNaN(Cell(raw, r, "Cultivar")) /\ ~IsNaN(Cell(raw, r, "Sem definicao")))
                        => Cell(dados, r, "Cultivar") = Cell(raw, r, "Sem definicao")

----------------------------------------------------------------------------
(* Claims about the order of the fetches, checked under Spec *)

\* the combination of log entry n is done with: its table was absent, or
\* its records are in self.data
Settled(n) ==
    \/ log[n].outcome = "absent"
    \/ log[n].outcome = "extracted" /\ Appended(n)

\* the positions of the button list a year is fetched for; 0 stands for
\* the single fetch of a year when there are no buttons
ButtonPositions == IF buttons = <<>> THEN {0} ELSE 1..Len(buttons)

\* C14: fetches are issued one at a time, each combination being located,
\* extracted and accumulated before the next fetch starts; a completed run
\* has issued exactly one fetch per (year, category) pair of the iteration,
\* or one per year with no category column when there are no categories.
C14_OneFetchAtATimeOnePerPair ==
    /\ \A n \in 1..(Len(log) - 1) : Settled(n)
    /\ pc \in {"Fetch", "ForEachYear", "ForEachCategory", "Normalize", "returned"}
          => \A n \in 1..Len(log) : Settled(n)
    /\ Len(Accumulated.rows) = RowsBefore(Len(log) + 1)
    /\ \A m, n \in 1..Len(log) : m # n => log[m].at # log[n].at
    /\ \A n \in 1..Len(log) :
          /\ log[n].at[1] \in 1..Len(years)
          /\ log[n].at[2] \in ButtonPositions
    /\ pc = "returned" =>
          \A y \in 1..Len(years) : \A b \in ButtonPositions :
              Cardinality({ n \in 1..Len(log) : log[n].at = <<y, b>> }) = 1
    /\ buttons = <<>> =>
          /\ ~HasCol(data, "Button")
          /\ \A n \in 1..Len(log) : log[n].button = <<>>

\* the fourth fetch of a run over two years and two buttons is about to
\* start, the three before it settled
C14_Witness ==
    /\ pc = "Fetch"
    /\ Len(years) = 2 /\ Len(buttons) = 2
    /\ yi = 2 /\ bi = 2
    /\ Len(log) = 3
    /\ log[2].outcome = "extracted"
    /\ log[3].outcome = "extracted"
    /\ HasCol(data, "Button")

----------------------------------------------------------------------------
(* Successive calls of extract_table_data on one scraper object, as lines  *)
(* 102 and 113 make them.  log holds the earlier calls: their table, their *)
(* label and the frame they returned.                                      *)

\* rows of the tables of successive calls: two Category rows of different
\* labels and a SubItem row
CallRows ==
    { [cls |-> {"tb_item"}, cells |-> <<t>>, mk |-> 0, foot |-> FALSE] : t \in RawTexts }
    \cup { [cls |-> {"tb_subitem"}, cells |-> << <<"a">> >>, mk |-> 0, foot |-> FALSE] }

CallTables ==
    { [header |-> <<"Produto">>, rows |-> rs] : rs \in SeqsUpTo(CallRows, MaxCallRows) }

InitCalls ==
    /\ pc = "extract_start"
    /\ entry = "extract_table_data"
    /\ cls = "WebScraper"
    /\ table \in CallTables
    /\ classification_button \in ButtonLabels
    /\ idx = 0
    /\ headers = <<>>
    /\ current_classification = <<>>
    /\ second_last_item = <<>>
    /\ rows = <<>>
    /\ df = NoFrame
    /\ IdleRun

\* the caller has the frame of one call and makes the next call; what the
\* locals of the call that returned held is still in the variables
CallAgain ==
    /\ pc = "extract_done"
    /\ Len(log) + 1 < MaxCalls
    /\ log' = Append(log, [table |-> table, button |-> classification_button, df |-> df])
    /\ table' \in CallTables
    /\ classification_button' \in ButtonLabels
    /\ pc' = "extract_start"
    /\ UNCHANGED <<entry, cls, idx, headers, current_classification, second_last_item,
                   rows, df, years, buttons, yi, bi, html, data, dados, exc, raw>>

NextCalls == ExtractStart \/ ExtractRow \/ ExtractReturn \/ CallAgain

SpecCalls == InitCalls /\ [][NextCalls]_vars

\* row i of table t is a SubItem row with no Category row before it
OrphanSubItem(t, i) ==
    IsSubItemRow(t.rows[i]) /\ \A j \in 1..(i - 1) : ~IsCategoryRow(t.rows[j])

\* the labels of the Category rows of table t
CategoryLabels(t) ==
    { Strip(t.rows[k].cells[1]) : k \in { j \in 1..Len(t.rows) : IsCategoryRow(t.rows[j]) } }

\* C15: the carried classification does not survive between calls: a
\* SubItem row with no Category row before it in its own table never gets
\* the label of a Category row of a table extracted earlier, and a table
\* extracted again with the same label gives the same records.
C15_NoStateBetweenCalls ==
    /\ pc = "extract_done" =>
          \A i \in 1..Len(table.rows) :
              OrphanSubItem(table, i) =>
                  \A n \in 1..Len(log) : \A c \in CategoryLabels(log[n].table) :
                      df.rows[i][ClassificationAt(table)] # Str(c)
    /\ pc = "extract_done" =>
          \A n \in 1..Len(log) :
              (log[n].table = table /\ log[n].button = classification_button)
              => log[n].df = df
    /\ pc = "extract_loop" /\ idx = 0 =>
          current_classification = EmptyText /\ second_last_item = EmptyText

\* the second call has extracted a table that starts with a SubItem row,
\* the first call's table ending with a Category row
C15_Witness ==
    /\ pc = "extract_done"
    /\ Len(log) = 1
    /\ Len(log[1].table.rows) = 2
    /\ IsCategoryRow(log[1].table.rows[2])
    /\ Len(table.rows) = 2
    /\ OrphanSubItem(table, 1)
    /\ df.rows[1][ClassificationAt(table)] = Str(EmptyText)

====
